---- MODULE Spec2Model ----
(***************************************************************************)
(* VotoClaro Pro (src/script.js): the Storage and State modules.           *)
(* Strings are sequences of one-character strings so that trim,            *)
(* toLowerCase and parseInt are computed character by character.           *)
(***************************************************************************)
EXTENDS Integers, Sequences, FiniteSets, TLC

VARIABLES data, stored, fails, pc, last, ui

vars == <<data, stored, fails, pc, last, ui>>

(* ---------------------------- bounds ----------------------------------- *)
\* number of localStorage calls that throw in one behaviour
MaxFail == 1

(* ------------------------ String.prototype ----------------------------- *)
IsSpace(ch) == ch = " "

RECURSIVE TrimStart(_)
TrimStart(s) ==
  IF s = <<>> THEN <<>>
  ELSE IF IsSpace(Head(s)) THEN TrimStart(Tail(s)) ELSE s

RECURSIVE TrimEnd(_)
TrimEnd(s) ==
  IF s = <<>> THEN <<>>
  ELSE IF IsSpace(s[Len(s)]) THEN TrimEnd(SubSeq(s, 1, Len(s) - 1)) ELSE s

trim(s) == TrimEnd(TrimStart(s))

LowerChar(ch) ==
  CASE ch = "A" -> "a"
    [] ch = "B" -> "b"
    [] ch = "P" -> "p"
    [] ch = "X" -> "x"
    [] OTHER -> ch

toLowerCase(s) == [i \in 1..Len(s) |-> LowerChar(s[i])]

(* ----------------------------- parseInt -------------------------------- *)
\* a JavaScript number: NaN, or an integer
NaN == [nan |-> TRUE, val |-> 0]

Num(v) == [nan |-> FALSE, val |-> v]

Digits == {"0", "1", "2", "3", "4", "5", "6", "7", "8", "9"}

DigitVal(ch) ==
  CASE ch = "0" -> 0 [] ch = "1" -> 1 [] ch = "2" -> 2 [] ch = "3" -> 3
    [] ch = "4" -> 4 [] ch = "5" -> 5 [] ch = "6" -> 6 [] ch = "7" -> 7
    [] ch = "8" -> 8 [] ch = "9" -> 9

\* the value of the longest prefix of decimal digits, acc being the value
\* of the digits read so far
RECURSIVE DigitPrefix(_, _)
DigitPrefix(s, acc) ==
  IF s = <<>> \/ Head(s) \notin Digits THEN acc
  ELSE DigitPrefix(Tail(s), acc * 10 + DigitVal(Head(s)))

parseInt(str) ==
  LET s    == TrimStart(str)
      neg  == s # <<>> /\ Head(s) = "-"
      sgn  == s # <<>> /\ Head(s) \in {"-", "+"}
      body == IF sgn THEN Tail(s) ELSE s
  IN  IF body = <<>> \/ Head(body) \notin Digits THEN NaN
      ELSE IF neg THEN Num(0 - DigitPrefix(body, 0)) ELSE Num(DigitPrefix(body, 0))

\* parseInt(x) || 0 : NaN and 0 are falsy, every other number is kept.
\* The totalEligible texts of the inputs carry no "0x" prefix, the one case in
\* which parseInt reads another radix than 10.
ParseIntOrZero(str) ==
  LET v == parseInt(str) IN IF v.nan THEN 0 ELSE v.val

(* ----------------------------- Storage --------------------------------- *)
\* {} : an object without keys
EmptyObj == [k \in {} |-> 0]

EmptyData == [candidates |-> <<>>, anforas |-> <<>>, results |-> EmptyObj]

TopKeys == {"candidates", "anforas", "results"}

\* JSON.stringify(state): the stored document lists the top-level keys it
\* carries; arrays keep their order, objects their keys
Stringify(d) == [keys |-> TopKeys, doc |-> d]

NoItem == [kind |-> "none", keys |-> {}, doc |-> EmptyData]

Item(d) == [kind |-> "json", keys |-> Stringify(d).keys, doc |-> Stringify(d).doc]

\* what localStorage may hold besides a document written by Storage.save:
\* a text that JSON.parse rejects, and the text "null"
Corrupt == [kind |-> "corrupt", keys |-> {}, doc |-> EmptyData]

JsonNull == [kind |-> "null", keys |-> {}, doc |-> EmptyData]

\* Storage.load: the parsed value; null (NoItem) when getItem throws (~rok),
\* when the key is missing and when JSON.parse throws
Load(st, rok) ==
  IF ~rok THEN NoItem
  ELSE IF st.kind = "none" THEN NoItem
  ELSE IF st.kind = "corrupt" THEN NoItem
  ELSE st

\* faulty variant: a stored object is loaded only when it has all three keys
Truthy_OnlyComplete(saved) == saved.kind = "json" /\ saved.keys = TopKeys

\* if (saved): an object is truthy, null is not
Truthy(saved) == saved.kind = "json"

\* faulty variant: { ...saved, candidates: [], anforas: [], results: {} }
Merge_DefaultsLast(saved) == EmptyData

\* { candidates: [], anforas: [], results: {}, ...saved }
Merge(saved) ==
  [candidates |-> IF "candidates" \in saved.keys THEN saved.doc.candidates ELSE <<>>,
   anforas    |-> IF "anforas" \in saved.keys THEN saved.doc.anforas ELSE <<>>,
   results    |-> IF "results" \in saved.keys THEN saved.doc.results ELSE EmptyObj]

\* faulty variant: once a localStorage call has failed, later writes are
\* skipped
Save_GivesUp(d, wok) ==
  /\ wok \/ fails < MaxFail
  /\ stored' = IF wok /\ fails = 0 THEN Item(d) ELSE stored
  /\ fails' = IF wok THEN fails ELSE fails + 1

\* Storage.save under persist(): setItem stores the document, or throws and
\* the exception is swallowed
Save(d, wok) ==
  /\ wok \/ fails < MaxFail
  /\ stored' = IF wok THEN Item(d) ELSE stored
  /\ fails' = IF wok THEN fails ELSE fails + 1

NoSave == UNCHANGED <<stored, fails>>

(* --------------------------- helpers ----------------------------------- *)
Range(s) == { s[i] : i \in 1..Len(s) }

Ids(s) == { s[i].id : i \in 1..Len(s) }

RECURSIVE Filter(_, _)
\* Array.prototype.filter(x => x.id !== id)
Filter(s, id) ==
  IF s = <<>> THEN <<>>
  ELSE IF Head(s).id # id THEN <<Head(s)>> \o Filter(Tail(s), id)
       ELSE Filter(Tail(s), id)

\* faulty variant: the first element when none matches
Find_OrFirst(s, id) ==
  IF \E i \in 1..Len(s) : s[i].id = id
  THEN CHOOSE i \in 1..Len(s) : s[i].id = id /\ \A j \in 1..(i - 1) : s[j].id # id
  ELSE IF Len(s) > 0 THEN 1 ELSE 0

\* Array.prototype.find(x => x.id === id): index of the first match, 0 if none
Find(s, id) ==
  IF \E i \in 1..Len(s) : s[i].id = id
  THEN CHOOSE i \in 1..Len(s) : s[i].id = id /\ \A j \in 1..(i - 1) : s[j].id # id
  ELSE 0

\* delete obj[key]
DeleteKey(f, k) == [x \in (DOMAIN f) \ {k} |-> f[x]]

\* faulty variant: Object.assign(obj[key], value), the earlier keys stay
SetKey_Merges(f, k, v) ==
  [x \in (DOMAIN f) \cup {k} |->
     IF x = k THEN (IF k \in DOMAIN f THEN v @@ f[k] ELSE v) ELSE f[x]]

\* obj[key] = value
SetKey(f, k, v) == [x \in (DOMAIN f) \cup {k} |-> IF x = k THEN v ELSE f[x]]

\* obj[key] || 0
Get(r, k) == IF k \in DOMAIN r THEN r[k] ELSE 0

\* the last call: the operation, the error it returned ("" when it returned
\* ok or returns nothing) and whether it called Storage.save
Call(op, error, saved) == [op |-> op, error |-> error, saved |-> saved]

(* ------------------------------ State ---------------------------------- *)
\* every id that occurs in a snapshot: entity ids, station keys of results,
\* keys of a Result
IdsOf(d) ==
  Ids(d.candidates) \cup Ids(d.anforas) \cup DOMAIN d.results
    \cup UNION { DOMAIN d.results[a] : a \in DOMAIN d.results }

CandidateIds == <<"c1", "c2", "c3", "c4">>

AnforaIds == <<"s1", "s2", "s3", "s4">>

\* crypto.randomUUID(): an id that occurs nowhere, neither in memory nor in
\* storage nor in the page. Which unused id it is makes no difference to the program, so the
\* first unused one of `pool` stands for it; candidates and stations draw from
\* disjoint pools, as two random ids never coincide.
uid(pool) ==
  LET used == IdsOf(data) \cup IdsOf(Merge(stored))
                \cup Range(ui.vicInputs) \cup {ui.pendingDelete.id}
  IN  pool[CHOOSE i \in 1..Len(pool) :
             /\ pool[i] \notin used
             /\ \A j \in 1..(i - 1) : pool[j] \in used]

\* faulty variant: the names are compared as typed
NameTaken_CaseSensitive(s, n) ==
  \E x \in Range(s) : x.name = n

\* s.some(x => x.name.toLowerCase() === n.toLowerCase())
NameTaken(s, n) ==
  \E x \in Range(s) : toLowerCase(x.name) = toLowerCase(n)

\* faulty variant: the entity being edited takes part in the comparison
NameTakenByOther_IncludesSelf(s, n, id) ==
  \E x \in Range(s) : toLowerCase(x.name) = toLowerCase(n)

\* s.some(x => x.name.toLowerCase() === n.toLowerCase() && x.id !== id)
NameTakenByOther(s, n, id) ==
  \E x \in Range(s) : toLowerCase(x.name) = toLowerCase(n) /\ x.id # id

\* faulty variant: persist() is called before the duplicate check
addCandidate_PersistFirst(name, party, wok) ==
  LET n == trim(name)
      c == [id |-> uid(CandidateIds), name |-> n, party |-> trim(party)]
  IN  /\ pc = "run"
      /\ IF n = <<>>
         THEN /\ last' = Call("addCandidate", "empty", FALSE)
              /\ UNCHANGED data /\ NoSave
         ELSE IF NameTaken(data.candidates, n)
         THEN /\ last' = Call("addCandidate", "dup", FALSE)
              /\ UNCHANGED data /\ Save(data, wok)
         ELSE /\ data' = [data EXCEPT !.candidates = Append(@, c)]
              /\ Save(data', wok)
              /\ last' = Call("addCandidate", "", TRUE)
      /\ UNCHANGED pc

addCandidate(name, party, wok) ==
  LET n == trim(name)
      c == [id |-> uid(CandidateIds), name |-> n, party |-> trim(party)]
  IN  /\ pc = "run"
      /\ IF n = <<>>
         THEN /\ last' = Call("addCandidate", "empty", FALSE)
              /\ UNCHANGED data /\ NoSave
         ELSE IF NameTaken(data.candidates, n)
         THEN /\ last' = Call("addCandidate", "dup", FALSE)
              /\ UNCHANGED data /\ NoSave
         ELSE /\ data' = [data EXCEPT !.candidates = Append(@, c)]
              /\ Save(data', wok)
              /\ last' = Call("addCandidate", "", TRUE)
      /\ UNCHANGED pc

\* faulty variant: the edited candidate is removed and pushed again
editCandidate_MovesToEnd(id, name, party, wok) ==
  LET n == trim(name)
      i == Find(data.candidates, id)
  IN  /\ pc = "run"
      /\ IF n = <<>>
         THEN /\ last' = Call("editCandidate", "empty", FALSE)
              /\ UNCHANGED data /\ NoSave
         ELSE IF NameTakenByOther(data.candidates, n, id)
         THEN /\ last' = Call("editCandidate", "dup", FALSE)
              /\ UNCHANGED data /\ NoSave
         ELSE IF i = 0
         THEN /\ last' = Call("editCandidate", "notfound", FALSE)
              /\ UNCHANGED data /\ NoSave
         ELSE /\ data' = [data EXCEPT !.candidates =
                           Append(Filter(@, id),
                                  [id |-> id, name |-> n, party |-> trim(party)])]
              /\ Save(data', wok)
              /\ last' = Call("editCandidate", "", TRUE)
      /\ UNCHANGED pc

editCandidate(id, name, party, wok) ==
  LET n == trim(name)
      i == Find(data.candidates, id)
  IN  /\ pc = "run"
      /\ IF n = <<>>
         THEN /\ last' = Call("editCandidate", "empty", FALSE)
              /\ UNCHANGED data /\ NoSave
         ELSE IF NameTakenByOther(data.candidates, n, id)
         THEN /\ last' = Call("editCandidate", "dup", FALSE)
              /\ UNCHANGED data /\ NoSave
         ELSE IF i = 0
         THEN /\ last' = Call("editCandidate", "notfound", FALSE)
              /\ UNCHANGED data /\ NoSave
         ELSE /\ data' = [data EXCEPT !.candidates[i].name = n,
                                      !.candidates[i].party = trim(party)]
              /\ Save(data', wok)
              /\ last' = Call("editCandidate", "", TRUE)
      /\ UNCHANGED pc

\* faulty variant: the Results keep the key
PurgeKey_Nothing(results, id) == results

\* Object.values(data.results).forEach(r => { delete r[id]; })
PurgeKey(results, id) == [a \in DOMAIN results |-> DeleteKey(results[a], id)]

\* the snapshot deleteCandidate leaves
deleteCandidateData(d, id) ==
  [d EXCEPT !.candidates = Filter(@, id), !.results = PurgeKey(@, id)]

deleteCandidate(id, wok) ==
  /\ pc = "run"
  /\ data' = deleteCandidateData(data, id)
  /\ Save(data', wok)
  /\ last' = Call("deleteCandidate", "", TRUE)
  /\ UNCHANGED pc

\* faulty variant: a station name is also looked up among the candidates
addAnfora_SharedNamespace(name, location, totalEligible, wok) ==
  LET n == trim(name)
      a == [id |-> uid(AnforaIds), name |-> n, location |-> trim(location),
            totalEligible |-> ParseIntOrZero(totalEligible)]
  IN  /\ pc = "run"
      /\ IF n = <<>>
         THEN /\ last' = Call("addAnfora", "empty", FALSE)
              /\ UNCHANGED data /\ NoSave
         ELSE IF NameTaken(data.anforas, n) \/ NameTaken(data.candidates, n)
         THEN /\ last' = Call("addAnfora", "dup", FALSE)
              /\ UNCHANGED data /\ NoSave
         ELSE /\ data' = [data EXCEPT !.anforas = Append(@, a)]
              /\ Save(data', wok)
              /\ last' = Call("addAnfora", "", TRUE)
      /\ UNCHANGED pc

addAnfora(name, location, totalEligible, wok) ==
  LET n == trim(name)
      a == [id |-> uid(AnforaIds), name |-> n, location |-> trim(location),
            totalEligible |-> ParseIntOrZero(totalEligible)]
  IN  /\ pc = "run"
      /\ IF n = <<>>
         THEN /\ last' = Call("addAnfora", "empty", FALSE)
              /\ UNCHANGED data /\ NoSave
         ELSE IF NameTaken(data.anforas, n)
         THEN /\ last' = Call("addAnfora", "dup", FALSE)
              /\ UNCHANGED data /\ NoSave
         ELSE /\ data' = [data EXCEPT !.anforas = Append(@, a)]
              /\ Save(data', wok)
              /\ last' = Call("addAnfora", "", TRUE)
      /\ UNCHANGED pc

editAnfora(id, name, location, totalEligible, wok) ==
  LET n == trim(name)
      i == Find(data.anforas, id)
  IN  /\ pc = "run"
      /\ IF n = <<>>
         THEN /\ last' = Call("editAnfora", "empty", FALSE)
              /\ UNCHANGED data /\ NoSave
         ELSE IF NameTakenByOther(data.anforas, n, id)
         THEN /\ last' = Call("editAnfora", "dup", FALSE)
              /\ UNCHANGED data /\ NoSave
         ELSE IF i = 0
         THEN /\ last' = Call("editAnfora", "notfound", FALSE)
              /\ UNCHANGED data /\ NoSave
         ELSE /\ data' = [data EXCEPT
                            !.anforas[i].name = n,
                            !.anforas[i].location = trim(location),
                            !.anforas[i].totalEligible = ParseIntOrZero(totalEligible)]
              /\ Save(data', wok)
              /\ last' = Call("editAnfora", "", TRUE)
      /\ UNCHANGED pc

\* faulty variant: the Result of the station stays
deleteAnforaData_KeepsResult(d, id) ==
  [d EXCEPT !.anforas = Filter(@, id)]

\* the snapshot deleteAnfora leaves
deleteAnforaData(d, id) ==
  [d EXCEPT !.anforas = Filter(@, id), !.results = DeleteKey(@, id)]

deleteAnfora(id, wok) ==
  /\ pc = "run"
  /\ data' = deleteAnforaData(data, id)
  /\ Save(data', wok)
  /\ last' = Call("deleteAnfora", "", TRUE)
  /\ UNCHANGED pc

\* data.results[anforaId] || null : Null stands for null
Null == [absent |-> TRUE]

getAnforaResult(d, anforaId) ==
  IF anforaId \in DOMAIN d.results THEN d.results[anforaId] ELSE Null

\* faulty variant: the assignment is undone when the write fails
saveAnforaResult_RollsBack(anforaId, votes, wok) ==
  /\ pc = "run"
  /\ data' = IF wok THEN [data EXCEPT !.results = SetKey(@, anforaId, votes)]
             ELSE data
  /\ Save(data', wok)
  /\ last' = Call("saveAnforaResult", "", TRUE)
  /\ UNCHANGED pc

saveAnforaResult(anforaId, votes, wok) ==
  /\ pc = "run"
  /\ data' = [data EXCEPT !.results = SetKey(@, anforaId, votes)]
  /\ Save(data', wok)
  /\ last' = Call("saveAnforaResult", "", TRUE)
  /\ UNCHANGED pc

\* faulty variant: data.results[anforaId] = {} in place of delete
clearAnforaResult_EmptiesResult(anforaId, wok) ==
  /\ pc = "run"
  /\ data' = [data EXCEPT !.results = SetKey(@, anforaId, EmptyObj)]
  /\ Save(data', wok)
  /\ last' = Call("clearAnforaResult", "", TRUE)
  /\ UNCHANGED pc

clearAnforaResult(anforaId, wok) ==
  /\ pc = "run"
  /\ data' = [data EXCEPT !.results = DeleteKey(@, anforaId)]
  /\ Save(data', wok)
  /\ last' = Call("clearAnforaResult", "", TRUE)
  /\ UNCHANGED pc

(* ------------------------------ getStats ------------------------------- *)
RECURSIVE SumSeq(_)
\* nums.reduce((s, v) => s + v, 0)
SumSeq(nums) == IF nums = <<>> THEN 0 ELSE Head(nums) + SumSeq(Tail(nums))

RECURSIVE Processed_StopsAtGap(_, _)
\* faulty variant: the first station without Result ends the loop
Processed_StopsAtGap(anforas, results) ==
  IF anforas = <<>> THEN <<>>
  ELSE IF Head(anforas).id \in DOMAIN results
       THEN <<Head(anforas)>> \o Processed_StopsAtGap(Tail(anforas), results)
       ELSE <<>>

\* the stations that have a Result, in sequence order
RECURSIVE Processed(_, _)
Processed(anforas, results) ==
  IF anforas = <<>> THEN <<>>
  ELSE IF Head(anforas).id \in DOMAIN results
       THEN <<Head(anforas)>> \o Processed(Tail(anforas), results)
       ELSE Processed(Tail(anforas), results)

RECURSIVE InsertByVotes_Unstable(_, _)
\* faulty variant: x goes before the entries that have as many votes
InsertByVotes_Unstable(sorted, x) ==
  IF sorted = <<>> THEN <<x>>
  ELSE IF Head(sorted).votes > x.votes
       THEN <<Head(sorted)>> \o InsertByVotes_Unstable(Tail(sorted), x)
       ELSE <<x>> \o sorted

\* Array.prototype.sort((a, b) => b.votes - a.votes) is stable: x goes behind
\* every entry that has at least as many votes
RECURSIVE InsertByVotes(_, _)
InsertByVotes(sorted, x) ==
  IF sorted = <<>> THEN <<x>>
  ELSE IF Head(sorted).votes >= x.votes
       THEN <<Head(sorted)>> \o InsertByVotes(Tail(sorted), x)
       ELSE <<x>> \o sorted

RECURSIVE SortByVotes_DropsTies(_)
\* faulty variant: an entry with as many votes as an earlier one is dropped
SortByVotes_DropsTies(s) ==
  IF s = <<>> THEN <<>>
  ELSE LET rest == SortByVotes_DropsTies(SubSeq(s, 1, Len(s) - 1))
           x    == s[Len(s)]
       IN  IF \E i \in 1..Len(rest) : rest[i].votes = x.votes
           THEN rest ELSE InsertByVotes(rest, x)

RECURSIVE SortByVotes(_)
SortByVotes(s) ==
  IF s = <<>> THEN <<>>
  ELSE InsertByVotes(SortByVotes(SubSeq(s, 1, Len(s) - 1)), s[Len(s)])

\* faulty variant: every key of a Result other than blancos and nulos is
\* summed
TotalValidos_AllKeys(candidates, done, results) ==
  SumSeq([i \in 1..Len(done) |->
    LET r == results[done[i].id]
        RECURSIVE SumKeys(_)
        SumKeys(K) == IF K = {} THEN 0
                      ELSE LET k == CHOOSE k \in K : TRUE
                           IN  r[k] + SumKeys(K \ {k})
    IN  SumKeys(DOMAIN r \ {"blancos", "nulos"})])

\* Object.values(votesByCand).reduce((s, v) => s + v, 0), votesByCand having
\* one entry per candidate: its counts r[c.id] || 0 over the processed stations
TotalValidos(candidates, done, results) ==
  SumSeq([i \in 1..Len(candidates) |->
    SumSeq([j \in 1..Len(done) |-> Get(results[done[j].id], candidates[i].id)])])

\* faulty variant: the division is made whatever the divisor
Participacion_NoGuard(totalEmitido, totalHabilitados) ==
  [num |-> totalEmitido * 100, den |-> totalHabilitados]

\* totalHabilitados > 0 ? (totalEmitido / totalHabilitados * 100) : 0, as the
\* fraction num / den
Participacion(totalEmitido, totalHabilitados) ==
  IF totalHabilitados > 0
  THEN [num |-> totalEmitido * 100, den |-> totalHabilitados]
  ELSE [num |-> 0, den |-> 1]

\* faulty variant: the operands are swapped
AnforasFaltantes_Swapped(anforas, anforasProcesadas) ==
  anforasProcesadas - Len(anforas)

\* anforas.length - anforasProcesadas
AnforasFaltantes(anforas, anforasProcesadas) ==
  Len(anforas) - anforasProcesadas

getStats(d) ==
  LET candidates == d.candidates
      anforas    == d.anforas
      results    == d.results
      totalHabilitados ==
        SumSeq([i \in 1..Len(anforas) |-> anforas[i].totalEligible])
      done == Processed(anforas, results)
      anforasProcesadas == Len(done)
      totalBlancos ==
        SumSeq([i \in 1..Len(done) |-> Get(results[done[i].id], "blancos")])
      totalNulos ==
        SumSeq([i \in 1..Len(done) |-> Get(results[done[i].id], "nulos")])
      votesByCand(id) ==
        SumSeq([i \in 1..Len(done) |-> Get(results[done[i].id], id)])
      totalValidos == TotalValidos(candidates, done, results)
      totalEmitido == totalValidos + totalBlancos + totalNulos
      sorted ==
        SortByVotes([i \in 1..Len(candidates) |->
          [id |-> candidates[i].id, name |-> candidates[i].name,
           party |-> candidates[i].party,
           votes |-> votesByCand(candidates[i].id)]])
      participacion == Participacion(totalEmitido, totalHabilitados)
  IN  [sorted |-> sorted,
       totalValidos |-> totalValidos,
       totalBlancos |-> totalBlancos,
       totalNulos |-> totalNulos,
       totalEmitido |-> totalEmitido,
       totalHabilitados |-> totalHabilitados,
       participacion |-> participacion,
       anforasProcesadas |-> anforasProcesadas,
       anforasFaltantes |-> AnforasFaltantes(anforas, anforasProcesadas),
       anforas |-> anforas,
       results |-> results,
       candidates |-> candidates]

\* faulty variant: candidates.sort(...) without the copy, data.candidates is
\* left in ranking order
GetStats_SortsInPlace ==
  /\ pc = "run"
  /\ LET sorted == getStats(data).sorted
     IN  data' = [data EXCEPT !.candidates =
                    [i \in 1..Len(sorted) |->
                       [id |-> sorted[i].id, name |-> sorted[i].name,
                        party |-> sorted[i].party]]]
  /\ last' = Call("getStats", "", FALSE)
  /\ UNCHANGED <<stored, fails, pc>>

\* a call of State.getStats(): it reads `data`; map and sort work on the copy
\* [...candidates], nothing is assigned to `data` and Storage is not called
GetStats ==
  /\ pc = "run"
  /\ data' = data
  /\ last' = Call("getStats", "", FALSE)
  /\ UNCHANGED <<stored, fails, pc>>

(* --------------------------- init and reset ---------------------------- *)
\* Storage.clear: removeItem removes the item, or throws and the exception is
\* swallowed
Clear(cok) ==
  /\ cok \/ fails < MaxFail
  /\ stored' = IF cok THEN NoItem ELSE stored
  /\ fails' = IF cok THEN fails ELSE fails + 1

\* faulty variant: the snapshot in memory is kept when the removal fails
reset_KeepsOnFailure(cok) ==
  /\ pc = "run"
  /\ data' = IF cok THEN EmptyData ELSE data
  /\ Clear(cok)
  /\ last' = Call("reset", "", FALSE)
  /\ UNCHANGED pc

reset(cok) ==
  /\ pc = "run"
  /\ data' = EmptyData
  /\ Clear(cok)
  /\ last' = Call("reset", "", FALSE)
  /\ UNCHANGED pc

\* let _pendingDelete = null
NoPending == [type |-> "", id |-> ""]

\* the page as the document builds it:
\*   selectAnfora   value of the select of the vote entry view
\*   vicInputs      data-candidate-id of the .vic-input elements, in order
\*   pendingDelete  Views._pendingDelete
\*   action         confirmActionBtn.dataset.action
\*   modalConfirm   modalConfirm is visible
\*   confirmTitle   what confirmTitle announces: "delete" or "reset"
InitialUI ==
  [selectAnfora |-> "", vicInputs |-> <<>>, pendingDelete |-> NoPending,
   action |-> "", modalConfirm |-> FALSE, confirmTitle |-> ""]

\* the page is opened: `data` is the empty default, localStorage holds one of
\* the items of S
InitOn(S) ==
  /\ data = EmptyData
  /\ stored \in S
  /\ fails = 0
  /\ pc = "boot"
  /\ last = Call("none", "", FALSE)
  /\ ui = InitialUI

\* first visit: nothing is stored
Init == InitOn({NoItem})

\* faulty variant: Storage.load without try/catch, the exception leaves
\* App.init
init_LoadThrows(rok) ==
  /\ pc = "boot"
  /\ rok \/ fails < MaxFail
  /\ LET saved == Load(stored, rok)
     IN  data' = IF Truthy(saved) THEN Merge(saved) ELSE data
  /\ pc' = IF rok /\ stored.kind # "corrupt" THEN "run" ELSE "crashed"
  /\ fails' = IF rok THEN fails ELSE fails + 1
  /\ last' = Call("init", "", FALSE)
  /\ UNCHANGED stored

\* State.init(), called once by App.init on DOMContentLoaded; getItem returns
\* (rok) or throws
init(rok) ==
  /\ pc = "boot"
  /\ rok \/ fails < MaxFail
  /\ LET saved == Load(stored, rok)
     IN  data' = IF Truthy(saved) THEN Merge(saved) ELSE data
  /\ pc' = "run"
  /\ fails' = IF rok THEN fails ELSE fails + 1
  /\ last' = Call("init", "", FALSE)
  /\ UNCHANGED stored

\* the page is loaded again: the module-level `data` starts as the empty
\* default and App.init has not run yet
Reload ==
  /\ pc = "run"
  /\ data' = EmptyData
  /\ pc' = "boot"
  /\ last' = Call("reload", "", FALSE)
  /\ UNCHANGED <<stored, fails>>

(* ---------------------------- inputs ----------------------------------- *)
\* the location text typed for a station
LocInput == <<" ", "p", " ">>

\* ids that are the id of no candidate and of no station
UnknownIds == {"ghost", "blancos", "nulos"}

\* a ballot gives counts by position in the candidate sequence and counts
\* under other keys
Ballot(pos, extra) == [pos |-> pos, extra |-> extra]

\* the `votes` object of a ballot: keyed by the ids of the current candidates
Votes(b) ==
  LET at == { i \in DOMAIN b.pos : i <= Len(data.candidates) }
      idx(k) == CHOOSE i \in at : data.candidates[i].id = k
  IN  [k \in { data.candidates[i].id : i \in at } \cup DOMAIN b.extra |->
         IF k \in DOMAIN b.extra THEN b.extra[k] ELSE b.pos[idx(k)]]

\* One call of the State module, the page being left as it is; the callers'
\* arguments are drawn from:
\*   CN, AN  names typed for a candidate, for a station
\*   PI, TI  party texts, totalEligible texts
\*   CX, AX  ids passed besides those of the current candidates, stations
\*   BL      ballots saved for a current station
\*   BX      ballots saved under an id of AX
\*   WK      outcomes of a localStorage call (TRUE: returns, FALSE: throws)
NextOn(CN, AN, PI, TI, CX, AX, BL, BX, WK) ==
  /\ UNCHANGED ui
  /\ \/ \E rok \in WK : init(rok)
     \/ Reload
     \/ GetStats
     \/ \E cok \in WK : reset(cok)
     \/ \E name \in CN, party \in PI, wok \in WK :
          addCandidate(name, party, wok)
     \/ \E id \in Ids(data.candidates) \cup CX, name \in CN, party \in PI, wok \in WK :
          editCandidate(id, name, party, wok)
     \/ \E id \in Ids(data.candidates) \cup CX, wok \in WK :
          deleteCandidate(id, wok)
     \/ \E name \in AN, tot \in TI, wok \in WK :
          addAnfora(name, LocInput, tot, wok)
     \/ \E id \in Ids(data.anforas) \cup AX, name \in AN, tot \in TI, wok \in WK :
          editAnfora(id, name, LocInput, tot, wok)
     \/ \E id \in Ids(data.anforas) \cup AX, wok \in WK :
          deleteAnfora(id, wok)
     \/ \E id \in Ids(data.anforas), b \in BL, wok \in WK :
          saveAnforaResult(id, Votes(b), wok)
     \/ \E id \in AX, b \in BX, wok \in WK :
          saveAnforaResult(id, Votes(b), wok)
     \/ \E id \in Ids(data.anforas) \cup AX, wok \in WK :
          clearAnforaResult(id, wok)

NameInputs == { <<>>, <<"a">>, <<" ", "A", " ">>, <<"b">> }

PartyInputs == { <<>>, <<"p", " ">> }

TotalInputs == { <<"2">>, <<"-", "1">>, <<"a", "b", "c">>, <<>>, <<" ", "1", "x">> }

OneTotal == { <<"2">> }

Ghost == {"ghost"}

OnlyBlancos == Ballot(<<>>, "blancos" :> 1)

\* names and parties vary; a Result is present or absent; every write to
\* storage succeeds
Next ==
  NextOn(NameInputs, NameInputs, PartyInputs, OneTotal,
         Ghost, Ghost, {OnlyBlancos}, {}, {TRUE})

Spec == Init /\ [][Next]_vars

\* the totalEligible texts vary
NextTotals ==
  NextOn({<<>>, <<"a">>}, {<<>>, <<"a">>, <<"b">>}, {<<"p">>}, TotalInputs,
         Ghost, Ghost, {OnlyBlancos}, {}, {TRUE})

SpecTotals == Init /\ [][NextTotals]_vars

Ballots ==
  { Ballot(<<1, 2>>, ("blancos" :> 1) @@ ("nulos" :> 2)),
    Ballot(<<1>>, ("ghost" :> 2)) }

\* Results vary; two names, one party; every write to storage succeeds
NextVotes ==
  NextOn({<<"a">>, <<"b">>}, {<<"a">>, <<"b">>}, {<<"p">>}, OneTotal,
         {"ghost", "blancos"}, Ghost, Ballots, {}, {TRUE})

SpecVotes == Init /\ [][NextVotes]_vars

\* a write to storage may fail
NextFail ==
  NextOn({<<>>, <<"a">>, <<"b">>}, {<<>>, <<"a">>}, {<<"p">>}, OneTotal,
         Ghost, Ghost, {OnlyBlancos}, {OnlyBlancos}, BOOLEAN)

SpecFail == Init /\ [][NextFail]_vars

\* the ballots of NextVotes and one that gives the first two candidates the
\* same count
StatBallots == Ballots \cup { Ballot(<<1, 1>>, EmptyObj) }

\* Results vary, also under an id of no station
NextStats ==
  NextOn({<<"a">>, <<"b">>}, {<<"a">>, <<"b">>}, {<<"p">>}, OneTotal,
         {}, Ghost, StatBallots, {OnlyBlancos}, {TRUE})

SpecStats == Init /\ [][NextStats]_vars

\* entities written by an earlier session
OldCandidate == [id |-> "c0", name |-> <<"a">>, party |-> <<>>]

OldAnfora == [id |-> "s0", name |-> <<"a">>, location |-> <<>>, totalEligible |-> 2]

\* a stored object with the top-level keys of `doc`
Stored(doc) == [kind |-> "json", keys |-> DOMAIN doc, doc |-> doc]

\* what the page may find in localStorage when it is opened: nothing, a text
\* that is no JSON, null, and objects of older layouts that lack top-level keys
StoredInputs ==
  { NoItem, Corrupt, JsonNull,
    Stored(EmptyObj),
    Stored([candidates |-> <<OldCandidate>>]),
    Stored([anforas |-> <<OldAnfora>>, results |-> ("s0" :> ("blancos" :> 1))]) }

\* the page is opened on any of the stored items; a localStorage call may fail
NextLoad ==
  NextOn({<<"a">>, <<"b">>}, {<<"a">>}, {<<"p">>}, OneTotal,
         Ghost, Ghost, {OnlyBlancos}, {OnlyBlancos}, BOOLEAN)

SpecLoad == InitOn(StoredInputs) /\ [][NextLoad]_vars

(* ------------------------------ the page ------------------------------- *)
\* Views.renderIngresoSelector: the options are rebuilt from the stations and
\* the earlier value is set again; a value without option leaves ""
renderIngresoSelector(u, d) ==
  [u EXCEPT !.selectAnfora = IF @ \in Ids(d.anforas) THEN @ ELSE ""]

\* Views.renderIngresoForm: one .vic-input per candidate for a station that
\* exists; otherwise the form is hidden and keeps its inputs
renderIngresoForm(u, d, anforaId) ==
  IF anforaId = "" \/ anforaId \notin Ids(d.anforas) THEN u
  ELSE [u EXCEPT !.vicInputs = [i \in 1..Len(d.candidates) |-> d.candidates[i].id]]

\* Views.renderAll
renderAll(u, d) ==
  LET u1 == renderIngresoSelector(u, d)
  IN  IF u1.selectAnfora # "" THEN renderIngresoForm(u1, d, u1.selectAnfora)
      ELSE u1

\* a handler of the page that calls no mutator
Handled(op, error) ==
  /\ last' = Call(op, error, FALSE)
  /\ UNCHANGED <<data, stored, fails, pc>>

\* formCandidate submit
formCandidateSubmit(name, party, wok) ==
  /\ ~ui.modalConfirm
  /\ addCandidate(name, party, wok)
  /\ ui' = IF last'.error = "" THEN renderIngresoSelector(ui, data') ELSE ui

\* formAnfora submit
formAnforaSubmit(name, location, totalEligible, wok) ==
  /\ ~ui.modalConfirm
  /\ addAnfora(name, location, totalEligible, wok)
  /\ ui' = IF last'.error = "" THEN renderIngresoSelector(ui, data') ELSE ui

\* Views.openEditCandidate for a listed candidate, then btnSaveEditCand click
btnSaveEditCandClick(id, name, party, wok) ==
  /\ ~ui.modalConfirm
  /\ editCandidate(id, name, party, wok)
  /\ ui' = IF last'.error = "" THEN renderAll(ui, data') ELSE ui

\* Views.openEditAnfora for a listed station, then btnSaveEditAnf click
btnSaveEditAnfClick(id, name, location, totalEligible, wok) ==
  /\ ~ui.modalConfirm
  /\ editAnfora(id, name, location, totalEligible, wok)
  /\ ui' = IF last'.error = "" THEN renderAll(ui, data') ELSE ui

\* selectAnfora change
selectAnforaChange(value) ==
  /\ pc = "run"
  /\ ~ui.modalConfirm
  /\ ui' = renderIngresoForm([ui EXCEPT !.selectAnfora = value], data, value)
  /\ Handled("selectAnfora", "")

\* what the user has typed in the vote entry form: the texts of the
\* .vic-input elements by position (an input left alone shows 0) and the
\* texts of inpVotosBlancos and inpVotosNulos
Entry(pos, blancos, nulos) == [pos |-> pos, blancos |-> blancos, nulos |-> nulos]

\* inp.value of the i-th .vic-input
VicText(e, i) == IF i \in DOMAIN e.pos THEN e.pos[i] ELSE <<"0">>

\* valid: no .vic-input parses to NaN or to a negative number
EntryValid(u, e) ==
  \A i \in 1..Len(u.vicInputs) :
    ~parseInt(VicText(e, i)).nan /\ parseInt(VicText(e, i)).val >= 0

\* the `votes` object the handler builds
EntryVotes(u, e) ==
  [k \in Range(u.vicInputs) \cup {"blancos", "nulos"} |->
     IF k = "blancos" THEN ParseIntOrZero(e.blancos)
     ELSE IF k = "nulos" THEN ParseIntOrZero(e.nulos)
     ELSE parseInt(VicText(e, CHOOSE i \in 1..Len(u.vicInputs) : u.vicInputs[i] = k)).val]

\* total: the candidate counts, then votes.blancos + votes.nulos
EntryTotal(u, e) ==
  SumSeq([i \in 1..Len(u.vicInputs) |-> parseInt(VicText(e, i)).val])
    + ParseIntOrZero(e.blancos) + ParseIntOrZero(e.nulos)

\* faulty variant: the total is compared before blancos and nulos are added
EntryExceeds_CandidatesOnly(u, d, e) ==
  LET i == Find(d.anforas, u.selectAnfora)
  IN  i # 0 /\ d.anforas[i].totalEligible > 0
            /\ SumSeq([j \in 1..Len(u.vicInputs) |-> parseInt(VicText(e, j)).val])
                 > d.anforas[i].totalEligible

\* anfora && anfora.totalEligible > 0 && total > anfora.totalEligible
EntryExceeds(u, d, e) ==
  LET i == Find(d.anforas, u.selectAnfora)
  IN  i # 0 /\ d.anforas[i].totalEligible > 0
            /\ EntryTotal(u, e) > d.anforas[i].totalEligible

\* btnSaveIngreso click
btnSaveIngresoClick(e, wok) ==
  /\ pc = "run"
  /\ ~ui.modalConfirm
  /\ IF ui.selectAnfora = "" THEN Handled("btnSaveIngreso", "noanfora")
     ELSE IF ~EntryValid(ui, e) THEN Handled("btnSaveIngreso", "invalid")
     ELSE IF EntryExceeds(ui, data, e) THEN Handled("btnSaveIngreso", "exceeds")
     ELSE saveAnforaResult(ui.selectAnfora, EntryVotes(ui, e), wok)
  /\ UNCHANGED ui

\* a delete button of a listed candidate or station: Views.confirmDelete
confirmDelete(type, id) ==
  /\ pc = "run"
  /\ ~ui.modalConfirm
  /\ ui' = [ui EXCEPT !.pendingDelete = [type |-> type, id |-> id],
                      !.modalConfirm = TRUE, !.confirmTitle = "delete"]
  /\ Handled("confirmDelete", "")

\* resetAllBtn click
resetAllBtnClick ==
  /\ pc = "run"
  /\ ~ui.modalConfirm
  /\ ui' = [ui EXCEPT !.action = "resetAll",
                      !.modalConfirm = TRUE, !.confirmTitle = "reset"]
  /\ Handled("resetAllBtn", "")

\* a [data-close] button of the dialog, a click on its overlay, or Escape:
\* UI.hideModal
closeModal ==
  /\ pc = "run"
  /\ ui.modalConfirm
  /\ ui' = [ui EXCEPT !.modalConfirm = FALSE]
  /\ Handled("closeModal", "")

\* confirmActionBtn click: its two listeners run one after the other,
\* Views.executePendingDelete and then the reset listener; wok and cok are the
\* outcomes of setItem and removeItem
confirmActionBtnClick(wok, cok) ==
  LET p       == ui.pendingDelete
      deletes == p # NoPending
      d1 == IF ~deletes THEN data
            ELSE IF p.type = "candidate" THEN deleteCandidateData(data, p.id)
            ELSE deleteAnforaData(data, p.id)
      st1 == IF deletes /\ wok THEN Item(d1) ELSE stored
      u1 == IF deletes
            THEN renderAll([ui EXCEPT !.pendingDelete = NoPending,
                                      !.modalConfirm = FALSE], d1)
            ELSE ui
      resets == ui.action = "resetAll"
      d2  == IF resets THEN EmptyData ELSE d1
      st2 == IF resets /\ cok THEN NoItem ELSE st1
      u2 == IF resets
            THEN [renderAll([u1 EXCEPT !.action = "", !.modalConfirm = FALSE], d2)
                    EXCEPT !.selectAnfora = ""]
            ELSE u1
      thrown == (IF deletes /\ ~wok THEN 1 ELSE 0) + (IF resets /\ ~cok THEN 1 ELSE 0)
  IN  /\ pc = "run"
      /\ ui.modalConfirm
      /\ fails + thrown <= MaxFail
      /\ ~deletes => wok
      /\ ~resets => cok
      /\ data' = d2
      /\ stored' = st2
      /\ fails' = fails + thrown
      /\ ui' = u2
      /\ last' = IF resets THEN Call("reset", "", FALSE)
                 ELSE IF ~deletes THEN Call("confirmActionBtn", "", FALSE)
                 ELSE IF p.type = "candidate" THEN Call("deleteCandidate", "", TRUE)
                 ELSE Call("deleteAnfora", "", TRUE)
      /\ UNCHANGED pc

\* the page is loaded again
ReloadPage == Reload /\ ui' = InitialUI

\* App.init: State.init(), then Views.renderAll() on the fresh page
AppInit(rok) == init(rok) /\ ui' = renderAll(ui, data')

\* Views.renderStats, on entering the statistics view
renderStats == GetStats /\ UNCHANGED ui

\* the texts typed in the vote entry form
Entries ==
  { Entry(<<<<"1">>, <<"1">>>>, <<>>, <<>>),
    Entry(<<<<"2">>>>, <<"1">>, <<>>),
    Entry(<<<<"1">>>>, <<"-", "1">>, <<>>),
    Entry(<<<<"-", "1">>>>, <<>>, <<>>),
    Entry(<<<<"1", ".", "5">>>>, <<>>, <<"1">>) }

\* the totalEligible texts typed for a station in the page
PageTotals == { <<"2">>, <<"1">> }

\* One event of the page: the State module is called by the handlers only.
\* The user types candidate names of CN, totalEligible texts of TI and vote
\* entries of EN; the station name and the party are fixed texts.
NextPageOn(CN, TI, EN) ==
  \/ AppInit(TRUE)
  \/ ReloadPage
  \/ renderStats
  \/ \E name \in CN : formCandidateSubmit(name, <<"p">>, TRUE)
  \/ \E tot \in TI : formAnforaSubmit(<<"a">>, LocInput, tot, TRUE)
  \/ \E id \in Ids(data.candidates), name \in CN :
       btnSaveEditCandClick(id, name, <<"p">>, TRUE)
  \/ \E id \in Ids(data.anforas), tot \in TI :
       btnSaveEditAnfClick(id, <<"a">>, LocInput, tot, TRUE)
  \/ \E value \in Ids(data.anforas) \cup {""} : selectAnforaChange(value)
  \/ \E e \in EN : btnSaveIngresoClick(e, TRUE)
  \/ \E id \in Ids(data.candidates) : confirmDelete("candidate", id)
  \/ \E id \in Ids(data.anforas) : confirmDelete("anfora", id)
  \/ resetAllBtnClick
  \/ closeModal
  \/ confirmActionBtnClick(TRUE, TRUE)

\* the vote entries vary; one candidate name
NextPage == NextPageOn({<<"a">>}, PageTotals, Entries)

SpecPage == Init /\ [][NextPage]_vars

\* the dialogs: two candidate names, one totalEligible text, one vote entry
NextDialog ==
  NextPageOn({<<"a">>, <<"b">>}, OneTotal, {Entry(<<<<"1">>>>, <<>>, <<>>)})

SpecDialog == Init /\ [][NextDialog]_vars

(* ------------------------------ claims --------------------------------- *)
Validated == {"addCandidate", "editCandidate", "addAnfora", "editAnfora"}

\* C1: every key of the results mapping is the id of a current station, in
\* every reachable state, saveAnforaResult being callable with any id.
C1_ResultKeysAreStations == DOMAIN data.results \subseteq Ids(data.anforas)

\* the value the claim C2 expects for a totalEligible text
NonNegativeOrZero(text) ==
  LET v == parseInt(text) IN IF ~v.nan /\ v.val >= 0 THEN v.val ELSE 0

\* C2: addAnfora and editAnfora are never rejected because of totalEligible
\* and store the parsed integer when it is >= 0 and 0 otherwise, so every
\* station of every reachable state has totalEligible >= 0.
C2_TotalEligibleNonNegative ==
  [][ /\ \A name \in NameInputs, tot \in TotalInputs :
           /\ last'.op = "addAnfora"
           /\ addAnfora(name, LocInput, tot, TRUE)
           /\ trim(name) # <<>>
           /\ ~NameTaken(data.anforas, trim(name))
           => /\ last'.error = ""
              /\ data'.anforas[Len(data'.anforas)].totalEligible
                   = NonNegativeOrZero(tot)
      /\ \A id \in Ids(data.anforas), name \in NameInputs, tot \in TotalInputs :
           /\ last' = Call("editAnfora", "", TRUE)
           /\ editAnfora(id, name, LocInput, tot, TRUE)
           => data'.anforas[Find(data.anforas, id)].totalEligible
                = NonNegativeOrZero(tot)
      /\ \A a \in Range(data'.anforas) : a.totalEligible >= 0 ]_vars

\* two names are equal when compared case-insensitively
FoldCase(ch) == IF ch = "A" THEN "a" ELSE IF ch = "B" THEN "b" ELSE ch

SameNameCI(x, y) ==
  /\ Len(x) = Len(y)
  /\ \A i \in 1..Len(x) : FoldCase(x[i]) = FoldCase(y[i])

NoTwoSameName(s) ==
  \A i, j \in 1..Len(s) : i # j => ~SameNameCI(s[i].name, s[j].name)

HasName(s, n) == \E i \in 1..Len(s) : SameNameCI(s[i].name, n)

\* C3: no two candidates have names equal case-insensitively, and an
\* addCandidate whose trimmed name equals an existing candidate's name up to
\* case returns the duplicate failure and leaves the sequence length unchanged.
C3_CandidateNamesUnique ==
  [][ /\ NoTwoSameName(data'.candidates)
      /\ \A name \in NameInputs, party \in PartyInputs :
           /\ last'.op = "addCandidate"
           /\ addCandidate(name, party, TRUE)
           /\ HasName(data.candidates, trim(name))
           => /\ last'.error = "dup"
              /\ Len(data'.candidates) = Len(data.candidates) ]_vars

C3_Witness ==
  /\ last = Call("addCandidate", "dup", FALSE)
  /\ Len(data.candidates) = 2
  /\ \E c \in Range(data.candidates) : c.name = <<"A">>

\* C4: no two stations have names equal case-insensitively, and the station
\* names are independent of the candidate names: an addAnfora (addCandidate)
\* with a non-empty name that no station (candidate) has succeeds, whatever
\* the names of the candidates (stations).
C4_StationNamesUniqueIndependent ==
  [][ /\ NoTwoSameName(data'.anforas)
      /\ \A name \in NameInputs, tot \in OneTotal :
           /\ last'.op = "addAnfora"
           /\ addAnfora(name, LocInput, tot, TRUE)
           /\ trim(name) # <<>>
           /\ ~HasName(data.anforas, trim(name))
           => /\ last'.error = ""
              /\ Len(data'.anforas) = Len(data.anforas) + 1
      /\ \A name \in NameInputs, party \in PartyInputs :
           /\ last'.op = "addCandidate"
           /\ addCandidate(name, party, TRUE)
           /\ trim(name) # <<>>
           /\ ~HasName(data.candidates, trim(name))
           => /\ last'.error = ""
              /\ Len(data'.candidates) = Len(data.candidates) + 1 ]_vars

C4_Witness ==
  /\ last = Call("addAnfora", "", TRUE)
  /\ Len(data.anforas) = 2
  /\ HasName(data.candidates, data.anforas[2].name)

\* C5 as claimed: editCandidate (editAnfora) with an id of no current
\* candidate (station) returns the not-found error and leaves the snapshot
\* unchanged, for every name and party.
C5_EditUnknownIdNotFound ==
  [][ /\ \A id \in Ghost, name \in NameInputs, party \in PartyInputs :
           last'.op = "editCandidate" /\ editCandidate(id, name, party, TRUE)
           => last'.error = "notfound" /\ data' = data
      /\ \A id \in Ghost, name \in NameInputs, tot \in OneTotal :
           last'.op = "editAnfora" /\ editAnfora(id, name, LocInput, tot, TRUE)
           => last'.error = "notfound" /\ data' = data ]_vars

\* C5 as amended: editCandidate (editAnfora) with an id of no current
\* candidate (station) fails and leaves the snapshot unchanged; the error is
\* the not-found error when the trimmed name is non-empty and is the name of
\* no current candidate (station), and the empty-name or duplicate error
\* otherwise.
C5_EditUnknownIdFails ==
  [][ /\ \A id \in Ghost, name \in NameInputs, party \in PartyInputs :
           last'.op = "editCandidate" /\ editCandidate(id, name, party, TRUE)
           => /\ data' = data
              /\ last'.error =
                   IF trim(name) = <<>> THEN "empty"
                   ELSE IF HasName(data.candidates, trim(name)) THEN "dup"
                   ELSE "notfound"
      /\ \A id \in Ghost, name \in NameInputs, tot \in OneTotal :
           last'.op = "editAnfora" /\ editAnfora(id, name, LocInput, tot, TRUE)
           => /\ data' = data
              /\ last'.error =
                   IF trim(name) = <<>> THEN "empty"
                   ELSE IF HasName(data.anforas, trim(name)) THEN "dup"
                   ELSE "notfound" ]_vars

C5_Witness ==
  /\ last = Call("editCandidate", "notfound", FALSE)
  /\ Len(data.candidates) > 0
  /\ Len(data.anforas) > 0

\* C6: when addCandidate, editCandidate, addAnfora or editAnfora fails, the
\* snapshot is as before the call and nothing is written to storage; when it
\* succeeds, the whole snapshot is handed to Storage.save.
C6_FailedMutatorChangesNothing ==
  [][ last'.op \in Validated =>
        IF last'.error # ""
        THEN data' = data /\ stored' = stored /\ fails' = fails /\ ~last'.saved
        ELSE /\ last'.saved
             /\ \/ stored' = Item(data') /\ fails' = fails
                \/ stored' = stored /\ fails' = fails + 1 ]_vars

C6_Witness ==
  /\ last.op \in Validated
  /\ last.error = "dup"
  /\ stored.doc # data

\* C7: deleteCandidate with an id of no current candidate leaves the
\* snapshot unchanged (candidates, stations and every key of every Result,
\* blancos and nulos included), and a second deleteCandidate of the same id
\* changes nothing more.
C7_DeleteUnknownCandidateNoOp ==
  [][ \A id \in UnknownIds :
        last'.op = "deleteCandidate" /\ deleteCandidate(id, TRUE)
        => data' = data /\ deleteCandidateData(data', id) = data' ]_vars

\* the votes a candidate has in the Results of the first n stations
RECURSIVE AccumulatedVotes(_, _, _)
AccumulatedVotes(d, id, n) ==
  IF n = 0 THEN 0
  ELSE AccumulatedVotes(d, id, n - 1) +
       ( IF /\ d.anforas[n].id \in DOMAIN d.results
            /\ id \in DOMAIN d.results[d.anforas[n].id]
         THEN d.results[d.anforas[n].id][id] ELSE 0 )

\* C8: after deleteCandidate of a current candidate, the candidate is gone,
\* no Result has its id as a key, totalValidos has dropped by the votes the
\* candidate had in the processed stations, and totalBlancos and totalNulos
\* are unchanged.
C8_DeleteCandidateRemovesVotes ==
  [][ \A id \in Ids(data.candidates) :
        last'.op = "deleteCandidate" /\ deleteCandidate(id, TRUE)
        => \E before \in {getStats(data)}, after \in {getStats(data')} :
             /\ id \notin Ids(data'.candidates)
             /\ \A a \in DOMAIN data'.results : id \notin DOMAIN data'.results[a]
             /\ after.totalValidos =
                  before.totalValidos - AccumulatedVotes(data, id, Len(data.anforas))
             /\ after.totalBlancos = before.totalBlancos
             /\ after.totalNulos = before.totalNulos ]_vars

\* the first candidate was deleted after a ballot had given the second one
\* two votes
C8_Witness ==
  /\ last.op = "deleteCandidate"
  /\ Len(data.candidates) = 1
  /\ \E a \in Ids(data.anforas) \cap DOMAIN data.results :
       /\ DOMAIN data.results[a] = {data.candidates[1].id, "blancos", "nulos"}
       /\ data.results[a][data.candidates[1].id] = 2
  /\ getStats(data).totalValidos = 2

\* C9: after deleteAnfora the station and its Result are gone, the Results of
\* the other stations are unchanged, and getStats counts as if the station
\* had never existed: it is neither processed nor pending and its
\* totalEligible and its votes are in no total and in no ranking entry.
C9_DeleteStationRemovesResult ==
  [][ \A id \in Ids(data.anforas) \cup Ghost :
        last'.op = "deleteAnfora" /\ deleteAnfora(id, TRUE)
        => \E before \in {getStats(data)}, after \in {getStats(data')} :
           LET was == id \in Ids(data.anforas)
               had == was /\ id \in DOMAIN data.results
               r   == IF had THEN data.results[id] ELSE EmptyObj
               count(k) == IF k \in DOMAIN r THEN r[k] ELSE 0
               votesOf(st, c) ==
                 LET e == CHOOSE e \in Range(st.sorted) : e.id = c IN e.votes
           IN  /\ id \notin Ids(data'.anforas)
               /\ id \notin DOMAIN data'.results
               /\ DOMAIN data'.results = DOMAIN data.results \ {id}
               /\ \A o \in DOMAIN data'.results : data'.results[o] = data.results[o]
               /\ data'.candidates = data.candidates
               /\ after.anforasProcesadas =
                    before.anforasProcesadas - (IF had THEN 1 ELSE 0)
               /\ after.anforasFaltantes =
                    before.anforasFaltantes - (IF was /\ ~had THEN 1 ELSE 0)
               /\ after.totalHabilitados =
                    before.totalHabilitados -
                      (IF was THEN data.anforas[Find(data.anforas, id)].totalEligible
                       ELSE 0)
               /\ after.totalBlancos = before.totalBlancos - count("blancos")
               /\ after.totalNulos = before.totalNulos - count("nulos")
               /\ \A c \in Ids(data.candidates) :
                    votesOf(after, c) = votesOf(before, c) - count(c)
               /\ after.totalValidos =
                    before.totalValidos -
                      SumSeq([i \in 1..Len(data.candidates) |->
                                count(data.candidates[i].id)])
               /\ after.totalEmitido =
                    after.totalValidos + after.totalBlancos + after.totalNulos ]_vars

\* the first station was deleted, the second one keeps its Result
C9_Witness ==
  /\ last.op = "deleteAnfora"
  /\ Len(data.anforas) = 1
  /\ data.anforas[1].id = "s2"
  /\ "s2" \in DOMAIN data.results
  /\ "s1" \notin DOMAIN data.results
  /\ getStats(data).anforasProcesadas = 1

Mutators ==
  Validated \cup {"deleteCandidate", "deleteAnfora", "saveAnforaResult",
                  "clearAnforaResult"}

\* C11: when localStorage.setItem throws during a mutator, the call returns
\* as it does when the write succeeds (no error), storage keeps what it held,
\* and the mutation stays in memory: the added entity is there, the edited
\* one has its new name, the deleted one is gone, the Result is the one
\* given or is absent, and getStats reads that snapshot.
C11_WriteFailureKeepsMutation ==
  [][ fails' # fails /\ last'.op \in Mutators =>
      /\ last'.error = "" /\ last'.saved
      /\ stored' = stored
      /\ pc' = "run"
      /\ getStats(data').candidates = data'.candidates
      /\ getStats(data').anforas = data'.anforas
      /\ \A name \in NameInputs, party \in PartyInputs :
           last'.op = "addCandidate" /\ addCandidate(name, party, FALSE)
           => /\ Len(data'.candidates) = Len(data.candidates) + 1
              /\ HasName(data'.candidates, trim(name))
      /\ \A id \in Ids(data.candidates), name \in NameInputs, party \in PartyInputs :
           last'.op = "editCandidate" /\ editCandidate(id, name, party, FALSE)
           => \E c \in Range(data'.candidates) : c.id = id /\ c.name = trim(name)
      /\ \A id \in Ids(data.candidates) \cup Ghost :
           last'.op = "deleteCandidate" /\ deleteCandidate(id, FALSE)
           => /\ id \notin Ids(data'.candidates)
              /\ Len(data'.candidates) =
                   Len(data.candidates) - (IF id \in Ids(data.candidates) THEN 1 ELSE 0)
      /\ \A name \in NameInputs, tot \in OneTotal :
           last'.op = "addAnfora" /\ addAnfora(name, LocInput, tot, FALSE)
           => /\ Len(data'.anforas) = Len(data.anforas) + 1
              /\ HasName(data'.anforas, trim(name))
      /\ \A id \in Ids(data.anforas), name \in NameInputs, tot \in OneTotal :
           last'.op = "editAnfora" /\ editAnfora(id, name, LocInput, tot, FALSE)
           => \E a \in Range(data'.anforas) : a.id = id /\ a.name = trim(name)
      /\ \A id \in Ids(data.anforas) \cup Ghost :
           last'.op = "deleteAnfora" /\ deleteAnfora(id, FALSE)
           => /\ id \notin Ids(data'.anforas) \cup DOMAIN data'.results
              /\ Len(data'.anforas) =
                   Len(data.anforas) - (IF id \in Ids(data.anforas) THEN 1 ELSE 0)
      /\ \A id \in Ids(data.anforas) \cup Ghost :
           last'.op = "saveAnforaResult"
           /\ saveAnforaResult(id, Votes(OnlyBlancos), FALSE)
           => /\ getAnforaResult(data', id) = Votes(OnlyBlancos)
              /\ getStats(data').anforasProcesadas =
                   Cardinality(Ids(data.anforas) \cap (DOMAIN data.results \cup {id}))
      /\ \A id \in Ids(data.anforas) \cup Ghost :
           last'.op = "clearAnforaResult" /\ clearAnforaResult(id, FALSE)
           => getAnforaResult(data', id) = Null ]_vars

\* a second candidate was added while the write failed: memory has two
\* candidates, storage still has one
C11_Witness ==
  /\ last = Call("addCandidate", "", TRUE)
  /\ fails = 1
  /\ Len(data.candidates) = 2
  /\ stored.kind = "json" /\ Len(stored.doc.candidates) = 1

\* C12 as claimed: after reset(), whatever the state before, the snapshot
\* has no candidates, no stations and no results and storage holds no
\* snapshot.
C12_ResetClearsStorage ==
  last.op = "reset" => data = EmptyData /\ stored.kind = "none"

\* C12 as amended: after reset() the snapshot has no candidates, no stations
\* and no results; when removeItem succeeds storage holds no snapshot, when it
\* throws storage keeps what it held; an init() that finds no snapshot in
\* storage yields the empty snapshot.
C12_ResetEmptiesSnapshot ==
  [][ /\ last'.op = "reset" =>
           /\ data' = EmptyData
           /\ \/ stored'.kind = "none" /\ fails' = fails
              \/ stored' = stored /\ fails' = fails + 1
      /\ last'.op = "init" /\ stored.kind = "none" => data' = EmptyData ]_vars

\* reset() ran on a snapshot with a candidate while removeItem threw: memory
\* is empty, storage still holds the candidate
C12_Witness ==
  /\ last.op = "reset"
  /\ data = EmptyData
  /\ fails = 1
  /\ stored.kind = "json" /\ Len(stored.doc.candidates) > 0

\* C13: when init() finds no loadable snapshot (the key is missing, the
\* stored text is no JSON or is null, or getItem throws), init() returns
\* normally and the snapshot is the empty default.
C13_InitDefaultsWhenNothingLoadable ==
  [][ /\ last'.op = "init"
      /\ stored.kind \in {"none", "corrupt", "null"} \/ fails' # fails
      => /\ pc' = "run"
         /\ data' = [candidates |-> <<>>, anforas |-> <<>>, results |-> EmptyObj]
         /\ stored' = stored ]_vars

\* init() has run on a stored text that is no JSON
C13_Witness ==
  /\ last.op = "init"
  /\ pc = "run"
  /\ stored.kind = "corrupt"
  /\ data = EmptyData

\* C14: when init() loads a stored object that lacks top-level keys, each
\* missing key is an empty container and each present key has the stored
\* value; from then on the snapshot has its three containers in every state,
\* so that the mutators and getStats run on it.
C14_MissingKeysDefault ==
  [][ /\ last'.op = "init" /\ fails' = fails /\ stored.kind = "json"
         => \A k \in {"candidates", "anforas", "results"} :
              data'[k] = IF k \in DOMAIN stored.doc THEN stored.doc[k]
                         ELSE IF k = "results" THEN EmptyObj ELSE <<>>
      /\ /\ DOMAIN data' = {"candidates", "anforas", "results"}
         /\ DOMAIN data'.candidates = 1..Len(data'.candidates)
         /\ DOMAIN data'.anforas = 1..Len(data'.anforas)
         /\ getStats(data').anforasProcesadas + getStats(data').anforasFaltantes
              = Len(data'.anforas) ]_vars

\* a stored object with only a candidates key was loaded and a station was
\* then added and given a Result
C14_Witness ==
  /\ last.op = "saveAnforaResult"
  /\ \E c \in Range(data.candidates) : c.id = "c0"
  /\ Len(data.anforas) = 1
  /\ data.anforas[1].id \in DOMAIN data.results

\* C15: a successful editCandidate(id, name, party) replaces the name and
\* the party of the candidate with that id by the trimmed texts and changes
\* nothing else: the candidate keeps its id and its index, the other
\* candidates, the stations and the Results are as before; and an edit to a
\* name equal up to case to the candidate's own current name succeeds.
C15_EditCandidateFrame ==
  [][ \A id \in Ids(data.candidates), name \in NameInputs, party \in PartyInputs :
        last'.op = "editCandidate" /\ editCandidate(id, name, party, TRUE)
        => /\ last'.error = "" =>
                /\ Len(data'.candidates) = Len(data.candidates)
                /\ \A i \in 1..Len(data.candidates) :
                     data'.candidates[i] =
                       IF data.candidates[i].id = id
                       THEN [id |-> id, name |-> trim(name), party |-> trim(party)]
                       ELSE data.candidates[i]
                /\ data'.anforas = data.anforas
                /\ data'.results = data.results
           /\ (\E c \in Range(data.candidates) :
                 c.id = id /\ SameNameCI(c.name, trim(name)))
              => last'.error = "" ]_vars

\* the first of two candidates, added as "a", was renamed to "A"
C15_Witness ==
  /\ last = Call("editCandidate", "", TRUE)
  /\ Len(data.candidates) = 2
  /\ data.candidates[1].id = "c1"
  /\ data.candidates[1].name = <<"A">>
  /\ data.candidates[1].party = <<"p">>
  /\ data.candidates[2].id = "c2"

\* C16: saveAnforaResult(id, votes) for a station makes the Result of the
\* station exactly `votes`: no key of an earlier Result survives and
\* getAnforaResult returns `votes`; the station has one entry in results,
\* and the candidates, the stations and the Results of the other stations
\* are unchanged.
C16_SaveReplacesResult ==
  [][ \A id \in Ids(data.anforas), b \in Ballots :
        last'.op = "saveAnforaResult" /\ saveAnforaResult(id, Votes(b), TRUE)
        => /\ getAnforaResult(data', id) = Votes(b)
           /\ DOMAIN data'.results[id] = DOMAIN Votes(b)
           /\ DOMAIN data'.results = DOMAIN data.results \cup {id}
           /\ \A o \in DOMAIN data.results \ {id} :
                data'.results[o] = data.results[o]
           /\ data'.candidates = data.candidates
           /\ data'.anforas = data.anforas ]_vars

\* the Result of the first station has the keys of the second ballot only,
\* the second station keeps a Result of the first ballot
C16_Witness ==
  /\ last.op = "saveAnforaResult"
  /\ Len(data.anforas) = 2
  /\ Len(data.candidates) = 2
  /\ DOMAIN data.results = {data.anforas[1].id, data.anforas[2].id}
  /\ DOMAIN data.results[data.anforas[1].id] = {data.candidates[1].id, "ghost"}
  /\ "blancos" \in DOMAIN data.results[data.anforas[2].id]

\* C17: after clearAnforaResult(id) getAnforaResult(id) is null; the station
\* stays in the sequence and getStats counts it as pending: one processed
\* station less and one pending more when it had a Result, and every total
\* and ranking entry without the counts of that Result; when there was no
\* Result the snapshot is unchanged; the Results of the other stations, the
\* candidates and the stations are unchanged.
C17_ClearMakesPending ==
  [][ \A id \in Ids(data.anforas) \cup Ghost :
        last'.op = "clearAnforaResult" /\ clearAnforaResult(id, TRUE)
        => \E before \in {getStats(data)}, after \in {getStats(data')} :
           LET had == id \in Ids(data.anforas) /\ id \in DOMAIN data.results
               r   == IF had THEN data.results[id] ELSE EmptyObj
               count(k) == IF k \in DOMAIN r THEN r[k] ELSE 0
               votesOf(st, c) ==
                 LET e == CHOOSE e \in Range(st.sorted) : e.id = c IN e.votes
           IN  /\ getAnforaResult(data', id) = Null
               /\ id \notin DOMAIN data.results => data' = data
               /\ \A o \in DOMAIN data.results \ {id} :
                    /\ o \in DOMAIN data'.results
                    /\ data'.results[o] = data.results[o]
               /\ data'.candidates = data.candidates
               /\ data'.anforas = data.anforas
               /\ after.anforasProcesadas =
                    before.anforasProcesadas - (IF had THEN 1 ELSE 0)
               /\ after.anforasFaltantes =
                    before.anforasFaltantes + (IF had THEN 1 ELSE 0)
               /\ after.anforasProcesadas =
                    Cardinality(Ids(data.anforas) \cap (DOMAIN data.results \ {id}))
               /\ after.totalHabilitados = before.totalHabilitados
               /\ after.totalBlancos = before.totalBlancos - count("blancos")
               /\ after.totalNulos = before.totalNulos - count("nulos")
               /\ \A c \in Ids(data.candidates) :
                    votesOf(after, c) = votesOf(before, c) - count(c)
               /\ after.totalEmitido =
                    before.totalEmitido - count("blancos") - count("nulos")
                      - SumSeq([i \in 1..Len(data.candidates) |->
                                  count(data.candidates[i].id)]) ]_vars

\* the Result of the first of two stations was cleared, the second keeps its
\* Result
C17_Witness ==
  /\ last.op = "clearAnforaResult"
  /\ Len(data.anforas) = 2
  /\ DOMAIN data.results = {data.anforas[2].id}
  /\ Len(data.candidates) > 0
  /\ getStats(data).anforasFaltantes = 1
  /\ getStats(data).totalEmitido > 0

CountAt(d, a, k) ==
  IF k \in DOMAIN d.results[a] THEN d.results[a][k] ELSE 0

\* the sum of the counts under key k over the stations of S
RECURSIVE SumStations(_, _, _)
SumStations(d, S, k) ==
  IF S = {} THEN 0
  ELSE LET a == CHOOSE a \in S : TRUE
       IN  CountAt(d, a, k) + SumStations(d, S \ {a}, k)

\* the sum over the candidates of C of their counts over the stations of S
RECURSIVE SumCandidates(_, _, _)
SumCandidates(d, C, S) ==
  IF C = {} THEN 0
  ELSE LET c == CHOOSE c \in C : TRUE
       IN  SumStations(d, S, c) + SumCandidates(d, C \ {c}, S)

\* C19: in every snapshot totalBlancos and totalNulos are the sums of blancos
\* and nulos over the stations that have a Result, totalValidos is the sum
\* over the current candidates and those stations of the Result's count for
\* the candidate (0 when the key is missing), totalEmitido is the sum of the
\* three; on the empty snapshot all four are 0 and the ranking is empty.
C19_Totals ==
  \E st \in {getStats(data)} :
    LET done == Ids(data.anforas) \cap DOMAIN data.results
    IN  /\ st.totalBlancos = SumStations(data, done, "blancos")
        /\ st.totalNulos = SumStations(data, done, "nulos")
        /\ st.totalValidos = SumCandidates(data, Ids(data.candidates), done)
        /\ st.totalEmitido = st.totalValidos + st.totalBlancos + st.totalNulos
        /\ (data.candidates = <<>> /\ data.anforas = <<>> /\ data.results = EmptyObj)
           => /\ st.totalValidos = 0 /\ st.totalBlancos = 0
              /\ st.totalNulos = 0 /\ st.totalEmitido = 0
              /\ st.sorted = <<>>

\* two candidates; the first station has no Result, the second has the first
\* ballot, and a Result is stored under an id of no station
C19_Witness ==
  /\ Len(data.candidates) = 2
  /\ Len(data.anforas) = 2
  /\ DOMAIN data.results = {data.anforas[2].id, "ghost"}
  /\ getStats(data).totalValidos = 3
  /\ getStats(data).totalBlancos = 1
  /\ getStats(data).totalNulos = 2
  /\ getStats(data).totalEmitido = 6

\* the index of the candidate with the given id in the candidate sequence
IndexOf(d, id) == CHOOSE i \in 1..Len(d.candidates) : d.candidates[i].id = id

\* C20: the ranking has one entry per candidate, each with the votes the
\* candidate has accumulated over the processed stations; the entries are in
\* non-increasing order of votes, and two entries with equal votes are in the
\* order of the candidate sequence.
C20_RankingOrder ==
  \E st \in {getStats(data)} :
    LET done == Ids(data.anforas) \cap DOMAIN data.results
        n    == Len(st.sorted)
    IN  /\ n = Len(data.candidates)
        /\ { st.sorted[i].id : i \in 1..n } = Ids(data.candidates)
        /\ \A i \in 1..n :
             /\ st.sorted[i].votes = SumStations(data, done, st.sorted[i].id)
             /\ st.sorted[i].name = data.candidates[IndexOf(data, st.sorted[i].id)].name
        /\ \A i, j \in 1..n :
             i < j =>
               /\ st.sorted[i].votes >= st.sorted[j].votes
               /\ st.sorted[i].votes = st.sorted[j].votes
                  => IndexOf(data, st.sorted[i].id) < IndexOf(data, st.sorted[j].id)

\* two candidates have the same positive number of votes
C20_Witness ==
  /\ Len(data.candidates) = 2
  /\ getStats(data).sorted[1].votes = getStats(data).sorted[2].votes
  /\ getStats(data).sorted[1].votes > 0
  /\ getStats(data).sorted[1].id = data.candidates[1].id

\* the snapshot without the counts stored under keys that are neither the id
\* of a current candidate nor blancos nor nulos
WithoutStaleKeys(d) ==
  [d EXCEPT !.results =
     [a \in DOMAIN @ |->
        [k \in DOMAIN @[a] \cap (Ids(d.candidates) \cup {"blancos", "nulos"}) |->
           @[a][k]]]]

\* C21: a count stored in a Result under a key that is the id of no current
\* candidate is ignored by getStats: totalValidos, totalEmitido and the
\* ranking are those of the snapshot without such counts, and every ranking
\* entry is a current candidate.
C21_StaleVotesIgnored ==
  \E st \in {getStats(data)}, clean \in {getStats(WithoutStaleKeys(data))} :
    /\ st.totalValidos = clean.totalValidos
    /\ st.totalEmitido = clean.totalEmitido
    /\ st.sorted = clean.sorted
    /\ \A i \in 1..Len(st.sorted) : st.sorted[i].id \in Ids(data.candidates)

\* the only Result of a station gives one vote to the only candidate and two
\* votes to an id of no candidate
C21_Witness ==
  /\ Len(data.candidates) = 1
  /\ Len(data.anforas) = 1
  /\ DOMAIN data.results = {data.anforas[1].id}
  /\ data.results[data.anforas[1].id] = (data.candidates[1].id :> 1) @@ ("ghost" :> 2)
  /\ getStats(data).totalValidos = 1
  /\ getStats(data).totalEmitido = 1

\* the sum of totalEligible over the first n stations
RECURSIVE SumEligible(_, _)
SumEligible(d, n) ==
  IF n = 0 THEN 0 ELSE SumEligible(d, n - 1) + d.anforas[n].totalEligible

WithoutPending(d) ==
  [d EXCEPT !.anforas = SelectSeq(@, LAMBDA a : a.id \in DOMAIN d.results)]

\* C23: anforasProcesadas is the number of stations that have a Result,
\* anforasFaltantes is the number of stations minus anforasProcesadas and is
\* not negative; the stations without Result add nothing to totalValidos,
\* totalBlancos, totalNulos and totalEmitido.
C23_ProcessedAndPending ==
  \E st \in {getStats(data)}, only \in {getStats(WithoutPending(data))} :
    /\ st.anforasProcesadas =
         Cardinality({ i \in 1..Len(data.anforas) :
                         data.anforas[i].id \in DOMAIN data.results })
    /\ st.anforasFaltantes = Len(data.anforas) - st.anforasProcesadas
    /\ st.anforasFaltantes >= 0
    /\ st.totalValidos = only.totalValidos
    /\ st.totalBlancos = only.totalBlancos
    /\ st.totalNulos = only.totalNulos
    /\ st.totalEmitido = only.totalEmitido

\* two stations, only the first has a Result
C23_Witness ==
  /\ Len(data.anforas) = 2
  /\ Len(data.candidates) = 2
  /\ DOMAIN data.results = {data.anforas[1].id}
  /\ getStats(data).anforasProcesadas = 1
  /\ getStats(data).anforasFaltantes = 1
  /\ getStats(data).totalEmitido = 6

\* the ids of a sequence of entities, in sequence order
Order(s) == [i \in 1..Len(s) |-> s[i].id]

\* the entities that are in both sequences are in the same relative order
SameRelativeOrder(s, t) ==
  SelectSeq(Order(s), LAMBDA x : x \in Ids(t))
    = SelectSeq(Order(t), LAMBDA x : x \in Ids(s))

\* C24: the candidate and the station sequence are in insertion order: a
\* successful add appends the new entity behind the unchanged sequence, no
\* call of a mutator or of getStats changes the relative order of two
\* entities that stay, and init() takes the sequences from storage in the
\* order in which they were stored.
C24_InsertionOrder ==
  [][ /\ last'.op \in Mutators \cup {"getStats"}
         => /\ SameRelativeOrder(data.candidates, data'.candidates)
            /\ SameRelativeOrder(data.anforas, data'.anforas)
      /\ last' = Call("addCandidate", "", TRUE)
         => /\ Len(data'.candidates) = Len(data.candidates) + 1
            /\ SubSeq(data'.candidates, 1, Len(data.candidates)) = data.candidates
            /\ data'.candidates[Len(data'.candidates)].id \notin Ids(data.candidates)
      /\ last' = Call("addAnfora", "", TRUE)
         => /\ Len(data'.anforas) = Len(data.anforas) + 1
            /\ SubSeq(data'.anforas, 1, Len(data.anforas)) = data.anforas
            /\ data'.anforas[Len(data'.anforas)].id \notin Ids(data.anforas)
      /\ last'.op = "init" /\ fails' = fails /\ stored.kind = "json"
         => /\ Order(data'.candidates) = Order(stored.doc.candidates)
            /\ Order(data'.anforas) = Order(stored.doc.anforas) ]_vars

\* the first of two candidates was renamed and is still the first
C24_Witness ==
  /\ last = Call("editCandidate", "", TRUE)
  /\ Order(data.candidates) = <<"c1", "c2">>
  /\ data.candidates[1].name = <<"b">>
  /\ Len(data.anforas) = 1

\* C28: storage never holds a part of a snapshot: every write that succeeds
\* stores the whole snapshot as it is in memory after the mutator, whatever
\* writes failed before, and a write that fails leaves storage as it was.
C28_WholeSnapshotWritten ==
  [][ last'.op \in Mutators /\ last'.saved =>
        IF fails' = fails
        THEN /\ stored'.kind = "json"
             /\ stored'.keys = {"candidates", "anforas", "results"}
             /\ stored'.doc = data'
        ELSE stored' = stored ]_vars

\* after a localStorage call had failed, a mutator stored the snapshot with
\* two candidates, a station and its Result
C28_Witness ==
  /\ fails = 1
  /\ last = Call("saveAnforaResult", "", TRUE)
  /\ stored.kind = "json"
  /\ stored.doc = data
  /\ Len(data.candidates) = 2
  /\ Len(data.anforas) = 1
  /\ data.anforas[1].id \in DOMAIN data.results

\* the sum of the votes fields of the first n ranking entries
RECURSIVE SumVotes(_, _)
SumVotes(sorted, n) ==
  IF n = 0 THEN 0 ELSE SumVotes(sorted, n - 1) + sorted[n].votes

\* C29: the ranking has the length of the candidate sequence and contains
\* each current candidate exactly once, with its id, name and party, and the
\* votes fields of the ranking add up to totalValidos.
C29_RankingCoversCandidates ==
  \E st \in {getStats(data)} :
    /\ Len(st.sorted) = Len(data.candidates)
    /\ \A c \in Range(data.candidates) :
         Cardinality({ i \in 1..Len(st.sorted) :
                         /\ st.sorted[i].id = c.id
                         /\ st.sorted[i].name = c.name
                         /\ st.sorted[i].party = c.party }) = 1
    /\ SumVotes(st.sorted, Len(st.sorted)) = st.totalValidos

\* the second candidate leads with two votes, the first has one
C29_Witness ==
  /\ Len(data.candidates) = 2
  /\ Len(data.anforas) = 1
  /\ getStats(data).sorted[1].id = data.candidates[2].id
  /\ getStats(data).sorted[1].votes = 2
  /\ getStats(data).sorted[2].votes = 1
  /\ getStats(data).totalValidos = 3

\* a text that is a non-negative integer
IsNatText(t) == t # <<>> /\ \A i \in 1..Len(t) : t[i] \in Digits

\* every quantity typed in a vote entry is a non-negative integer; a field
\* left empty counts as 0
EntryIsClean(e) ==
  /\ \A i \in DOMAIN e.pos : IsNatText(e.pos[i])
  /\ e.blancos = <<>> \/ IsNatText(e.blancos)
  /\ e.nulos = <<>> \/ IsNatText(e.nulos)

\* C25: every count of every Result stored by the save handler of the page,
\* blancos and nulos included, is a non-negative integer, and a vote entry
\* with a negative or non-integer quantity is never stored.
C25_VotesVerified ==
  [][ /\ \A a \in DOMAIN data'.results : \A k \in DOMAIN data'.results[a] :
           data'.results[a][k] >= 0
      /\ \A e \in Entries :
           last'.op = "saveAnforaResult" /\ btnSaveIngresoClick(e, TRUE)
           => EntryIsClean(e) ]_vars

\* C26: when the total of a valid vote entry (candidate counts + blancos +
\* nulos) is greater than the totalEligible of the selected station, the save
\* handler only warns: the Result is stored all the same.
C26_ExceedingTotalStillStored ==
  [][ \A e \in Entries :
        /\ last'.op \in {"saveAnforaResult", "btnSaveIngreso"}
        /\ btnSaveIngresoClick(e, TRUE)
        /\ ui.selectAnfora \in Ids(data.anforas)
        /\ EntryValid(ui, e)
        /\ EntryTotal(ui, e) >
             data.anforas[Find(data.anforas, ui.selectAnfora)].totalEligible
        => /\ last'.op = "saveAnforaResult"
           /\ getAnforaResult(data', ui.selectAnfora) = EntryVotes(ui, e) ]_vars

\* C27: State.reset() runs only on a confirm click in the dialog opened by
\* the reset button; a confirm click in a dialog opened by a delete button
\* removes the targeted candidate or station and nothing else, whatever
\* dialogs were opened and closed before.
C27_ResetOnlyOnResetDialog ==
  [][ /\ last'.op = "reset" => ui.modalConfirm /\ ui.confirmTitle = "reset"
      /\ ( /\ ui.modalConfirm /\ ui.confirmTitle = "delete"
           /\ last'.op \in {"deleteCandidate", "deleteAnfora", "reset"} )
         => LET p == ui.pendingDelete
            IN  /\ data'.candidates =
                     SelectSeq(data.candidates,
                               LAMBDA c : p.type # "candidate" \/ c.id # p.id)
                /\ data'.anforas =
                     SelectSeq(data.anforas,
                               LAMBDA a : p.type # "anfora" \/ a.id # p.id)
                /\ DOMAIN data'.results =
                     DOMAIN data.results \ (IF p.type = "anfora" THEN {p.id} ELSE {}) ]_vars

\* the total of the Result of a station: its counts for the current
\* candidates, blancos and nulos
ResultTotal(d, a) ==
  SumCandidates(d, Ids(d.candidates), {a})
    + SumStations(d, {a}, "blancos") + SumStations(d, {a}, "nulos")

\* every station with totalEligible > 0 and a Result has a total within
\* totalEligible
WithinEligible(d) ==
  \A i \in 1..Len(d.anforas) :
    (d.anforas[i].totalEligible > 0 /\ d.anforas[i].id \in DOMAIN d.results)
    => ResultTotal(d, d.anforas[i].id) <= d.anforas[i].totalEligible

\* participacion <= 100 when every station has totalEligible > 0
ParticipationAtMost100(d) ==
  (\A i \in 1..Len(d.anforas) : d.anforas[i].totalEligible > 0)
  => getStats(d).participacion.num <= 100 * getStats(d).participacion.den

\* C30 as claimed: the Results being stored by the save handler of the page
\* only, in every reachable state every station with totalEligible > 0 and a
\* Result has a total within totalEligible, also after later edits of
\* stations and adds and deletes of candidates, and participacion is at most
\* 100 when every station has totalEligible > 0.
C30_TotalsWithinEligible ==
  WithinEligible(data) /\ ParticipationAtMost100(data)

\* C30 as amended: right after the save handler has stored a Result, the
\* station has a total within its totalEligible when that is > 0; every
\* event of the page other than the edit of a station (and the reading back
\* of what was stored) keeps all stations within totalEligible; and as long
\* as they are, participacion is at most 100 when every station has
\* totalEligible > 0.
C30_WithinEligibleUntilStationEdit ==
  [][ /\ last'.op = "saveAnforaResult"
         => LET i == Find(data'.anforas, ui.selectAnfora)
            IN  i # 0 /\ ( data'.anforas[i].totalEligible > 0 =>
                  ResultTotal(data', ui.selectAnfora) <= data'.anforas[i].totalEligible )
      /\ (last'.op \notin {"editAnfora", "init"} /\ WithinEligible(data))
         => WithinEligible(data')
      /\ WithinEligible(data') => ParticipationAtMost100(data') ]_vars

\* a Result with total 2 was stored for a station with totalEligible 2, and
\* a candidate was deleted afterwards
C30_Witness ==
  /\ last.op = "deleteCandidate"
  /\ Len(data.anforas) = 1
  /\ data.anforas[1].totalEligible = 2
  /\ data.anforas[1].id \in DOMAIN data.results
  /\ ResultTotal(data, data.anforas[1].id) = 1
  /\ data.results[data.anforas[1].id]["nulos"] = 1
====
